---- MODULE Spec2Model ----
(***************************************************************************)
(* Model of src/similarityEngine.js: the process-wide defaultAlgo cache,   *)
(* loadDefaultAlgo and the async function getSimilarProperties, one action *)
(* per run of code between two suspension points (await).                  *)
(*                                                                         *)
(* JavaScript numbers are modelled as exact rationals (a normalised pair   *)
(* n/d), JavaScript objects as functions whose DOMAIN is the set of keys   *)
(* the object has, so that an absent key and a zero value stay distinct.   *)
(***************************************************************************)
EXTENDS Integers, Sequences, FiniteSets, TLC

(***************************************************************************)
(* Bounds of the model.                                                    *)
(***************************************************************************)
\* number of getSimilarProperties invocations that may be in flight at once
NumCalls == 2
\* longest candidate list enumerated record by record
MaxCands == 2
\* largest explicit options.limit
MaxLimit == 2

(***************************************************************************)
(* Program constants.                                                      *)
(***************************************************************************)
\* options.limit || 10
DefaultLimit == 10
\* the year gap is divided by 100
YearScale == 100

Calls == 1 .. NumCalls

(***************************************************************************)
(* Exact rational arithmetic for the JavaScript numbers.                   *)
(***************************************************************************)
Abs(x) == IF x < 0 THEN -x ELSE x

MaxInt(a, b) == IF a >= b THEN a ELSE b

RECURSIVE GCD(_, _)
GCD(a, b) == IF b = 0 THEN a ELSE GCD(b, a % b)

\* the rational n/d (d # 0) in lowest terms with a positive denominator
R(n, d) ==
  LET g == GCD(Abs(n), Abs(d))
      s == IF d < 0 THEN -1 ELSE 1
  IN  [n |-> (s * n) \div g, d |-> (s * d) \div g]

Zero == R(0, 1)

One == R(1, 1)

LCM(a, b) == (a \div GCD(a, b)) * b

RAdd(x, y) ==
  LET l == LCM(x.d, y.d)
  IN  R(x.n * (l \div x.d) + y.n * (l \div y.d), l)

RSub(x, y) == RAdd(x, [n |-> -y.n, d |-> y.d])

RMul(x, y) ==
  LET a == R(x.n, y.d)
      b == R(y.n, x.d)
  IN  R(a.n * b.n, a.d * b.d)

RLeq(x, y) ==
  LET l == LCM(x.d, y.d)
  IN  x.n * (l \div x.d) <= y.n * (l \div y.d)

RLt(x, y) == ~RLeq(y, x)

RMax(x, y) == IF RLeq(y, x) THEN x ELSE y

RMin(x, y) == IF RLeq(x, y) THEN x ELSE y

(***************************************************************************)
(* JavaScript values.                                                      *)
(***************************************************************************)
\* the value null of `let defaultAlgo = null`
NullAlgo == [type |-> "null"]

\* a local that has not been assigned yet
Undefined == [type |-> "undefined"]

\* own-property test
Has(obj, k) == k \in DOMAIN obj

\* obj.k used as a condition: the key is present and its value is not 0
Truthy(obj, k) == Has(obj, k) /\ obj[k] # 0

\* a string used as a condition: present and not the empty string
TruthyStr(obj, k) == Has(obj, k) /\ obj[k] # ""

SetField(obj, k, v) == [x \in DOMAIN obj \cup {k} |-> IF x = k THEN v ELSE obj[x]]

DropField(obj, k) == [x \in DOMAIN obj \ {k} |-> obj[x]]

\* the hard-coded defaults of the catch block of loadDefaultAlgo
FallbackAlgo ==
  [weights   |-> [area |-> R(4, 10), market |-> R(2, 10), land |-> R(1, 10), year |-> R(3, 10)],
   cutoffs   |-> [areaPct |-> R(1, 10), marketPct |-> R(2, 10), landPct |-> R(3, 10), yearDiff |-> 10],
   priceBias |-> [enabled |-> TRUE, weight |-> R(15, 100), fullBiasAt |-> 50]]

\* a configuration decoded from ./defaultAlgorithm.json when the load succeeds
FileAlgo ==
  [weights   |-> [area |-> R(1, 2), market |-> R(1, 4), land |-> R(1, 4), year |-> R(1, 1)],
   cutoffs   |-> [areaPct |-> R(1, 4), marketPct |-> R(1, 2), landPct |-> R(1, 2), yearDiff |-> 5],
   priceBias |-> [enabled |-> TRUE, weight |-> R(1, 10), fullBiasAt |-> 2]]

(***************************************************************************)
(* Pure functions of the scoring pipeline.                                 *)
(***************************************************************************)
\* function relDiff(a, b): Math.abs(a - b) / Math.max(a, b)
relDiff(a, b) == R(Abs(a - b), MaxInt(a, b))

\* variant: the default only when no limit is given (?? in place of ||)
LimitOfNullish(opts) == IF Has(opts, "limit") THEN opts.limit ELSE DefaultLimit

\* options.limit || 10
LimitOf(opts) == IF Truthy(opts, "limit") THEN opts.limit ELSE DefaultLimit

\* variant: the operands of the spread swapped, so that the base keys win
SpreadBaseWins(a, b) == [k \in DOMAIN a \cup DOMAIN b |-> IF k \in DOMAIN a THEN a[k] ELSE b[k]]

\* { ...a, ...b }: the keys of a, then the keys of b over them
Spread(a, b) == [k \in DOMAIN a \cup DOMAIN b |-> IF k \in DOMAIN b THEN b[k] ELSE a[k]]

\* variant: Object.assign(weights, algo.weights), which writes into the cached group
MergeGroupInPlace(group, over) ==
  [result |-> [k \in DOMAIN group \cup DOMAIN over |-> IF k \in DOMAIN over THEN over[k] ELSE group[k]],
   target |-> [k \in DOMAIN group \cup DOMAIN over |-> IF k \in DOMAIN over THEN over[k] ELSE group[k]]]

\* weights = { ...weights, ...algo.weights }: the merged object is a new
\* object; the object the local pointed at (the cached group) is left as is
MergeGroup(group, over) == [result |-> Spread(group, over), target |-> group]

\* JSON.parse(text): the decoded value, or a SyntaxError
JSONParse(str) ==
  IF str.wellFormed THEN [threw |-> FALSE, value |-> str.value] ELSE [threw |-> TRUE]

\* variant: the catch block resets the locals to the hard-coded defaults
OnInvalidUseFallback(base) == FallbackAlgo

\* the catch block: the locals keep what they held, the cached defaults
OnInvalidCustomAlgo(base) == base

\* lines 36-53: the locals weights, cutoffs and priceBias after the optional
\* override, and what the cached default object holds afterwards
ApplyAlgo(base, algo) ==
  LET w == IF Has(algo, "weights")
           THEN MergeGroup(base.weights, algo.weights)
           ELSE [result |-> base.weights, target |-> base.weights]
      c == IF Has(algo, "cutoffs")
           THEN MergeGroup(base.cutoffs, algo.cutoffs)
           ELSE [result |-> base.cutoffs, target |-> base.cutoffs]
      p == IF Has(algo, "priceBias")
           THEN MergeGroup(base.priceBias, algo.priceBias)
           ELSE [result |-> base.priceBias, target |-> base.priceBias]
  IN  [resolved |-> [weights |-> w.result, cutoffs |-> c.result, priceBias |-> p.result],
       cache    |-> [weights |-> w.target, cutoffs |-> c.target, priceBias |-> p.target]]

ResolveAlgo(base, opts) ==
  IF ~Has(opts, "customAlgo")
  THEN [resolved |-> base, cache |-> base]
  ELSE LET custom == opts.customAlgo
           parsed == IF custom.type = "string"
                     THEN JSONParse(custom)
                     ELSE [threw |-> FALSE, value |-> custom]
       IN  IF parsed.threw \/ parsed.value.type # "object"
           THEN [resolved |-> OnInvalidCustomAlgo(base), cache |-> base]
           ELSE ApplyAlgo(base, parsed.value.value)

\* variant: the ratio without Math.min(1, ...)
AvailabilityFactorUncapped(priceBias, candidates) ==
  IF priceBias.enabled THEN R(Len(candidates), priceBias.fullBiasAt) ELSE Zero

\* priceBias.enabled ? Math.min(1, candidates.length / priceBias.fullBiasAt) : 0
AvailabilityFactor(priceBias, candidates) ==
  IF priceBias.enabled
  THEN RMin(One, R(Len(candidates), priceBias.fullBiasAt))
  ELSE Zero

\* variant: the area tolerance compared with < in place of <=
AdmitStrictArea(r, t, cutoffs) ==
  /\ Truthy(r, "imprvmainarea")
  /\ Truthy(r, "prevvalmarket")
  /\ Truthy(r, "prevvalland")
  /\ Truthy(r, "imprvyearbuilt")
  /\ RLt(relDiff(r.imprvmainarea, t.imprvmainarea), cutoffs.areaPct)
  /\ RLeq(relDiff(r.prevvalmarket, t.prevvalmarket), cutoffs.marketPct)
  /\ RLeq(relDiff(r.prevvalland, t.prevvalland), cutoffs.landPct)
  /\ Abs(r.imprvyearbuilt - t.imprvyearbuilt) <= cutoffs.yearDiff

\* the predicate of candidates.filter(...)
Admit(r, t, cutoffs) ==
  /\ Truthy(r, "imprvmainarea")
  /\ Truthy(r, "prevvalmarket")
  /\ Truthy(r, "prevvalland")
  /\ Truthy(r, "imprvyearbuilt")
  /\ RLeq(relDiff(r.imprvmainarea, t.imprvmainarea), cutoffs.areaPct)
  /\ RLeq(relDiff(r.prevvalmarket, t.prevvalmarket), cutoffs.marketPct)
  /\ RLeq(relDiff(r.prevvalland, t.prevvalland), cutoffs.landPct)
  /\ Abs(r.imprvyearbuilt - t.imprvyearbuilt) <= cutoffs.yearDiff

Filter(candidates, t, cutoffs) == SelectSeq(candidates, LAMBDA r : Admit(r, t, cutoffs))

BaseSimilarity(r, t, weights) ==
  RAdd(RAdd(RMul(weights.area, relDiff(r.imprvmainarea, t.imprvmainarea)),
            RMul(weights.market, relDiff(r.prevvalmarket, t.prevvalmarket))),
       RAdd(RMul(weights.land, relDiff(r.prevvalland, t.prevvalland)),
            RMul(weights.year, R(Abs(r.imprvyearbuilt - t.imprvyearbuilt), YearScale))))

\* variant: priceRatio - 1 without Math.max(0, ...)
PriceBiasValueUnclamped(r, t, priceBias) ==
  IF priceBias.enabled THEN RSub(R(r.prevvalmarket, t.prevvalmarket), One) ELSE Zero

\* priceBiasValue: Math.max(0, priceRatio - 1) when enabled, else 0
PriceBiasValue(r, t, priceBias) ==
  IF priceBias.enabled
  THEN RMax(Zero, RSub(R(r.prevvalmarket, t.prevvalmarket), One))
  ELSE Zero

\* the function given to .map(...)
Score(r, t, weights, priceBias, af) ==
  LET base == BaseSimilarity(r, t, weights)
      pbv  == PriceBiasValue(r, t, priceBias)
  IN  [k \in DOMAIN r \cup {"similarity", "baseSimilarity", "priceBias"} |->
         CASE k = "similarity"     -> RAdd(base, RMul(RMul(af, priceBias.weight), pbv))
           [] k = "baseSimilarity" -> base
           [] k = "priceBias"      -> pbv
           [] OTHER                -> r[k]]

MapScore(rs, t, weights, priceBias, af) ==
  [i \in 1 .. Len(rs) |-> Score(rs[i], t, weights, priceBias, af)]

\* the comparator (a, b) => a.similarity - b.similarity puts b before a
\* exactly when a.similarity - b.similarity > 0
Before(a, b) == RLeq(a.similarity, b.similarity)

RECURSIVE InsertSorted(_, _)
InsertSorted(sorted, x) ==
  IF sorted = <<>> THEN <<x>>
  ELSE IF Before(sorted[Len(sorted)], x)
       THEN Append(sorted, x)
       ELSE Append(InsertSorted(SubSeq(sorted, 1, Len(sorted) - 1), x), sorted[Len(sorted)])

\* Array.prototype.sort with that comparator: ascending and stable
RECURSIVE SortBySimilarity(_)
SortBySimilarity(s) ==
  IF s = <<>> THEN <<>>
  ELSE InsertSorted(SortBySimilarity(SubSeq(s, 1, Len(s) - 1)), s[Len(s)])

\* .slice(0, end): a negative end counts from the end of the array
Slice(s, end) ==
  LET e == IF end < 0 THEN MaxInt(Len(s) + end, 0) ELSE IF end > Len(s) THEN Len(s) ELSE end
  IN  SubSeq(s, 1, e)

\* lines 75-101: the value of the local `scored`
Scored(candidates, t, weights, cutoffs, priceBias, af, limit) ==
  Slice(SortBySimilarity(MapScore(Filter(candidates, t, cutoffs), t, weights, priceBias, af)), limit)

\* lines 103-109: the object returned
ResultOf(t, candidates, scored) ==
  [target             |-> t,
   legalabssubcode    |-> t.legalabssubcode,
   totalCandidates    |-> Len(candidates),
   filteredCandidates |-> Len(scored),
   comps              |-> scored]

(***************************************************************************)
(* The inputs: what a caller may pass and what the fetches may answer.     *)
(***************************************************************************)
\* the target parcel the data provider returns
Target ==
  [imprvmainarea |-> 10, prevvalmarket |-> 10, prevvalland |-> 10,
   imprvyearbuilt |-> 2000, legalabssubcode |-> "S1"]

\* a candidate equal to the target in all four attributes
Exact ==
  [imprvmainarea |-> 10, prevvalmarket |-> 10, prevvalland |-> 10, imprvyearbuilt |-> 2000]

\* candidate attribute records: Exact with one attribute changed, zeroed or absent
Pool ==
  {Exact}
  \cup {SetField(Exact, "imprvmainarea", v) : v \in {0, 8, 9}}
  \cup {SetField(Exact, "prevvalmarket", v) : v \in {5, 12}}
  \cup {DropField(Exact, "prevvalmarket")}
  \cup {SetField(Exact, "prevvalland", v) : v \in {0, 6, 7}}
  \cup {SetField(Exact, "imprvyearbuilt", v) : v \in {2010, 2011}}
  \cup {DropField(Exact, "imprvyearbuilt")}

\* the provider gives every parcel its own propid: here its place in the answer
WithIds(rs) == [i \in 1 .. Len(rs) |-> SetField(rs[i], "propid", i)]

ShortLists == UNION {[1 .. n -> Pool] : n \in 0 .. MaxCands}

\* answers longer than the default limit: two records alternating
LongLists ==
  {[i \in 1 .. DefaultLimit + 1 |-> IF i % 2 = 1 THEN a ELSE b] :
     a \in {Exact, SetField(Exact, "prevvalmarket", 12)},
     b \in {Exact, SetField(Exact, "imprvmainarea", 9), SetField(Exact, "imprvmainarea", 8)}}

CandidateAnswers ==
  {[ok |-> FALSE]} \cup {[ok |-> TRUE, data |-> WithIds(rs)] : rs \in ShortLists \cup LongLists}

TargetAnswers ==
  {[ok |-> FALSE], [ok |-> TRUE, data |-> <<>>], [ok |-> TRUE, data |-> <<Target>>]}

\* the fetch of ./defaultAlgorithm.json: it fails, or it decodes to FileAlgo
LoadAnswers == {[ok |-> FALSE], [ok |-> TRUE, json |-> FileAlgo]}

EmptyObject == [k \in {} |-> TRUE]

Obj(v) == [type |-> "object", value |-> v]

\* customAlgo objects
AlgoObjects ==
  {EmptyObject,
   [weights |-> [area |-> R(9, 10)]],
   [cutoffs |-> [areaPct |-> R(1, 2), yearDiff |-> 0]],
   [priceBias |-> [enabled |-> FALSE]],
   [priceBias |-> [weight |-> R(-1, 10)]],
   [weights   |-> [market |-> R(0, 1), bedrooms |-> R(1, 10)],
    cutoffs   |-> [landPct |-> R(2, 5)],
    priceBias |-> [enabled |-> TRUE, fullBiasAt |-> 1]]}

\* customAlgo strings: malformed text, the text null, and an encoded object
AlgoStrings ==
  {[type |-> "string", wellFormed |-> FALSE],
   [type |-> "string", wellFormed |-> TRUE, value |-> [type |-> "null"]],
   [type |-> "string", wellFormed |-> TRUE,
    value |-> Obj([cutoffs |-> [marketPct |-> R(1, 10)], priceBias |-> [fullBiasAt |-> 1]])]}

OptionsOver(propids, limits, algos) ==
  {Undefined}
  \cup {p @@ l @@ a :
          p \in {EmptyObject} \cup {[propid |-> x] : x \in propids},
          l \in {EmptyObject} \cup {[limit |-> x] : x \in limits},
          a \in {EmptyObject} \cup {[customAlgo |-> x] : x \in algos}}

OptionsSet ==
  OptionsOver({"", "P0"}, 0 .. MaxLimit, {Obj(o) : o \in AlgoObjects} \cup AlgoStrings)

(***************************************************************************)
(* State.                                                                  *)
(***************************************************************************)
VARIABLES
  defaultAlgo,   \* the module-level cache: NullAlgo or a configuration
  loadCount,     \* how many fetches of ./defaultAlgorithm.json were issued
  call           \* per invocation of getSimilarProperties: its position and locals

vars == <<defaultAlgo, loadCount, call>>

MissingParameter == "propid is required in options"

TargetNotFound == "Target property not found"

FetchFailed == "fetch failed"

IdleFrame ==
  [pc |-> "idle", options |-> Undefined, cacheAtEntry |-> Undefined, fetches |-> <<>>,
   LIMIT |-> 0, weights |-> Undefined, cutoffs |-> Undefined, priceBias |-> Undefined,
   t |-> Undefined, candidates |-> <<>>, availabilityFactor |-> Zero, kept |-> <<>>,
   result |-> Undefined, error |-> ""]

Init ==
  /\ defaultAlgo = NullAlgo
  /\ loadCount = 0
  /\ call = [c \in Calls |-> IdleFrame]

\* !options || !options.propid
MissingPropid(opts) == opts = Undefined \/ ~TruthyStr(opts, "propid")

(***************************************************************************)
(* getSimilarProperties(options) is called: it calls loadDefaultAlgo, which *)
(* returns at once when the cache is truthy and otherwise starts the fetch *)
(* of the default configuration; either way the caller is suspended at     *)
(* `await loadDefaultAlgo()`.                                              *)
(***************************************************************************)
Call(c, opts) ==
  /\ call[c].pc = "idle"
  /\ IF defaultAlgo # NullAlgo
     THEN /\ call' = [call EXCEPT ![c].pc = "loaded", ![c].options = opts,
                                  ![c].cacheAtEntry = defaultAlgo]
          /\ UNCHANGED loadCount
     ELSE /\ call' = [call EXCEPT ![c].pc = "awaitLoad", ![c].options = opts,
                                  ![c].cacheAtEntry = defaultAlgo,
                                  ![c].fetches = Append(@, "defaultAlgorithm")]
          /\ loadCount' = loadCount + 1
  /\ UNCHANGED defaultAlgo

(***************************************************************************)
(* The fetch of loadDefaultAlgo settles: the decoded JSON, or the fallback *)
(* of the catch block, is assigned to defaultAlgo.                         *)
(***************************************************************************)
LoadSettle(c, answer) ==
  /\ call[c].pc = "awaitLoad"
  /\ defaultAlgo' = IF answer.ok THEN answer.json ELSE FallbackAlgo
  /\ call' = [call EXCEPT ![c].pc = "loaded"]
  /\ UNCHANGED loadCount

(***************************************************************************)
(* getSimilarProperties resumes after `await loadDefaultAlgo()`: the       *)
(* propid check, LIMIT, the resolution of the algorithm, and the start of  *)
(* the target fetch.                                                       *)
(***************************************************************************)
Resume(c) ==
  /\ call[c].pc = "loaded"
  /\ IF MissingPropid(call[c].options)
     THEN /\ call' = [call EXCEPT ![c].pc = "failed", ![c].error = MissingParameter]
          /\ UNCHANGED defaultAlgo
     ELSE LET algo == ResolveAlgo(defaultAlgo, call[c].options)
          IN  /\ call' = [call EXCEPT ![c].pc = "awaitTarget",
                                      ![c].LIMIT = LimitOf(call[c].options),
                                      ![c].weights = algo.resolved.weights,
                                      ![c].cutoffs = algo.resolved.cutoffs,
                                      ![c].priceBias = algo.resolved.priceBias,
                                      ![c].fetches = Append(@, "target")]
              /\ defaultAlgo' = algo.cache
  /\ UNCHANGED loadCount

(***************************************************************************)
(* The target fetch settles: a rejection or an empty answer ends the       *)
(* request; otherwise t is the first record and the candidate fetch starts.*)
(***************************************************************************)
TargetSettle(c, answer) ==
  /\ call[c].pc = "awaitTarget"
  /\ IF ~answer.ok
     THEN call' = [call EXCEPT ![c].pc = "failed", ![c].error = FetchFailed]
     ELSE IF Len(answer.data) = 0
     THEN call' = [call EXCEPT ![c].pc = "failed", ![c].error = TargetNotFound]
     ELSE call' = [call EXCEPT ![c].pc = "awaitCandidates", ![c].t = answer.data[1],
                               ![c].fetches = Append(@, "candidates")]
  /\ UNCHANGED <<defaultAlgo, loadCount>>

(***************************************************************************)
(* The candidate fetch settles: availabilityFactor, filter, map, sort,     *)
(* slice and the returned object.                                          *)
(***************************************************************************)
CandidatesSettle(c, answer) ==
  /\ call[c].pc = "awaitCandidates"
  /\ IF ~answer.ok
     THEN call' = [call EXCEPT ![c].pc = "failed", ![c].error = FetchFailed]
     ELSE LET f  == call[c]
              af == AvailabilityFactor(f.priceBias, answer.data)
              scored == Scored(answer.data, f.t, f.weights, f.cutoffs, f.priceBias, af, f.LIMIT)
          IN  call' = [call EXCEPT ![c].pc = "done",
                                   ![c].candidates = answer.data,
                                   ![c].availabilityFactor = af,
                                   ![c].kept = Filter(answer.data, f.t, f.cutoffs),
                                   ![c].result = ResultOf(f.t, answer.data, scored)]
  /\ UNCHANGED <<defaultAlgo, loadCount>>

(***************************************************************************)
(* The caller has received the result or the error; the invocation is over.*)
(***************************************************************************)
Return(c) ==
  /\ call[c].pc \in {"done", "failed"}
  /\ call' = [call EXCEPT ![c] = IdleFrame]
  /\ UNCHANGED <<defaultAlgo, loadCount>>

(***************************************************************************)
(* Spec: invocations one after the other (each is awaited before the next  *)
(* is made), over the full input sets.                                     *)
(***************************************************************************)
FirstCall == CHOOSE c \in Calls : \A d \in Calls : c <= d

Next ==
  \/ \E opts \in OptionsSet : Call(FirstCall, opts)
  \/ \E answer \in LoadAnswers : LoadSettle(FirstCall, answer)
  \/ Resume(FirstCall)
  \/ \E answer \in TargetAnswers : TargetSettle(FirstCall, answer)
  \/ \E answer \in CandidateAnswers : CandidatesSettle(FirstCall, answer)
  \/ Return(FirstCall)

Spec == Init /\ [][Next]_vars

(***************************************************************************)
(* SpecConc: up to NumCalls invocations in flight at once, interleaved at  *)
(* their suspension points, over small input sets.                         *)
(***************************************************************************)
ConcOptions == OptionsOver({"P0"}, {}, {[type |-> "string", wellFormed |-> FALSE]})

ConcCandidateAnswers ==
  {[ok |-> FALSE]} \cup {[ok |-> TRUE, data |-> WithIds(rs)] : rs \in {<<>>, <<Exact>>}}

NextConc ==
  \E c \in Calls :
    \/ \E opts \in ConcOptions : Call(c, opts)
    \/ \E answer \in LoadAnswers : LoadSettle(c, answer)
    \/ Resume(c)
    \/ \E answer \in TargetAnswers : TargetSettle(c, answer)
    \/ \E answer \in ConcCandidateAnswers : CandidatesSettle(c, answer)
    \/ Return(c)

SpecConc == Init /\ [][NextConc]_vars

(***************************************************************************)
(* Vocabulary of the properties.                                           *)
(***************************************************************************)
MinInt(a, b) == IF a <= b THEN a ELSE b

Groups == {"weights", "cutoffs", "priceBias"}

\* the request passed the propid check and resolved its algorithm
Resolved(c) ==
  \/ call[c].pc \in {"awaitTarget", "awaitCandidates", "done"}
  \/ call[c].pc = "failed" /\ call[c].error # MissingParameter

ResolvedGroup(c, g) ==
  CASE g = "weights" -> call[c].weights
    [] g = "cutoffs" -> call[c].cutoffs
    [] g = "priceBias" -> call[c].priceBias

\* |a - b| / max(a, b) <= pct, for max(a, b) > 0, without the division
WithinPct(a, b, pct) == Abs(a - b) * pct.d <= pct.n * MaxInt(a, b)

Present(r, k) == k \in DOMAIN r /\ r[k] # 0

Eligible(r, t, cut) ==
  /\ Present(r, "imprvmainarea") /\ Present(r, "prevvalmarket")
  /\ Present(r, "prevvalland") /\ Present(r, "imprvyearbuilt")
  /\ WithinPct(r.imprvmainarea, t.imprvmainarea, cut.areaPct)
  /\ WithinPct(r.prevvalmarket, t.prevvalmarket, cut.marketPct)
  /\ WithinPct(r.prevvalland, t.prevvalland, cut.landPct)
  /\ r.imprvyearbuilt - t.imprvyearbuilt <= cut.yearDiff
  /\ t.imprvyearbuilt - r.imprvyearbuilt <= cut.yearDiff

IsKept(f, i) == \E j \in 1 .. Len(f.kept) : f.kept[j] = f.candidates[i]

NonDecreasing(comps) ==
  \A i \in 1 .. Len(comps) : \A j \in i .. Len(comps) :
    comps[i].similarity.n * comps[j].similarity.d <= comps[j].similarity.n * comps[i].similarity.d

HasMalformedAlgo(opts) ==
  /\ opts # Undefined
  /\ Has(opts, "customAlgo")
  /\ opts.customAlgo.type = "string"
  /\ ~opts.customAlgo.wellFormed

HasObjectAlgo(opts) ==
  /\ opts # Undefined
  /\ Has(opts, "customAlgo")
  /\ opts.customAlgo.type = "object"

(***************************************************************************)
(* C1: when a request has filtered its candidates, a fetched candidate is  *)
(* among the kept records if and only if its area, market value, land      *)
(* value and year built are all present and non-zero, its relative         *)
(* differences to the target are within areaPct, marketPct and landPct and *)
(* its year gap is within yearDiff; and the kept records are a subsequence *)
(* of the fetched candidates, each unaltered.                              *)
(***************************************************************************)
C1_FilterKeepsExactlyEligible ==
  \A c \in Calls :
    call[c].pc = "done" =>
      LET f == call[c]
      IN  /\ \A i \in 1 .. Len(f.candidates) :
               IsKept(f, i) <=> Eligible(f.candidates[i], f.t, f.cutoffs)
          /\ \A j \in 1 .. Len(f.kept) :
               /\ f.kept[j].propid \in 1 .. Len(f.candidates)
               /\ f.kept[j] = f.candidates[f.kept[j].propid]
          /\ \A j \in 1 .. Len(f.kept) : \A k \in 1 .. Len(f.kept) :
               j < k => f.kept[j].propid < f.kept[k].propid

\* a request that kept a candidate lying exactly on the area tolerance and
\* rejected a complete candidate lying outside a tolerance
C1_Witness ==
  \E c \in Calls :
    LET f == call[c]
    IN  /\ f.pc = "done"
        /\ \E i \in 1 .. Len(f.candidates) :
             /\ IsKept(f, i)
             /\ relDiff(f.candidates[i].imprvmainarea, f.t.imprvmainarea) = f.cutoffs.areaPct
        /\ \E i \in 1 .. Len(f.candidates) :
             /\ ~IsKept(f, i)
             /\ \A k \in {"imprvmainarea", "prevvalmarket", "prevvalland", "imprvyearbuilt"} :
                  Present(f.candidates[i], k)

(***************************************************************************)
(* C2 as stated: the ranked list of a successful request has length        *)
(* min(limit, number of kept candidates), limit being the caller's limit   *)
(* or 10 when none is given, and its scores are non-decreasing.            *)
(***************************************************************************)
C2_LengthIsMinOfGivenLimit ==
  \A c \in Calls :
    call[c].pc = "done" =>
      LET f == call[c]
          limit == IF Has(f.options, "limit") THEN f.options.limit ELSE 10
      IN  /\ Len(f.result.comps) = MinInt(limit, Len(f.kept))
          /\ NonDecreasing(f.result.comps)

(***************************************************************************)
(* C2 amended: the ranked list of a successful request has length          *)
(* min(limit, number of kept candidates), limit being the caller's limit   *)
(* when it is a positive integer and 10 when none is given or the limit    *)
(* given is 0, and its scores are non-decreasing.                          *)
(***************************************************************************)
C2_LengthIsMinOfPositiveLimit ==
  \A c \in Calls :
    call[c].pc = "done" =>
      LET f == call[c]
          limit == IF Has(f.options, "limit") /\ f.options.limit > 0
                   THEN f.options.limit ELSE 10
      IN  /\ Len(f.result.comps) = MinInt(limit, Len(f.kept))
          /\ NonDecreasing(f.result.comps)

\* a request with limit 0 that kept more than ten candidates and returned ten,
\* not all with the same score
C2_Witness ==
  \E c \in Calls :
    LET f == call[c]
    IN  /\ f.pc = "done"
        /\ Has(f.options, "limit")
        /\ f.options.limit = 0
        /\ Len(f.kept) > 10
        /\ Len(f.result.comps) = 10
        /\ f.result.comps[1].similarity # f.result.comps[10].similarity

(***************************************************************************)
(* C3: the filteredCandidates field of the result is the number of         *)
(* candidates that passed the filter, whatever the limit.                  *)
(***************************************************************************)
C3_FilteredCountIsKeptCount ==
  \A c \in Calls :
    call[c].pc = "done" => call[c].result.filteredCandidates = Len(call[c].kept)

(***************************************************************************)
(* C4: with an object override, each resolved group is the base group with *)
(* the override's keys set to the override's values and every other base   *)
(* key kept, when the override has the group, and is the base group when   *)
(* it has not.                                                             *)
(***************************************************************************)
C4_ObjectOverrideMergesPerGroup ==
  \A c \in Calls :
    (Resolved(c) /\ HasObjectAlgo(call[c].options)) =>
      LET over == call[c].options.customAlgo.value
      IN  \A g \in Groups :
            LET res  == ResolvedGroup(c, g)
                base == defaultAlgo[g]
            IN  IF Has(over, g)
                THEN /\ DOMAIN res = DOMAIN base \cup DOMAIN over[g]
                     /\ \A k \in DOMAIN over[g] : res[k] = over[g][k]
                     /\ \A k \in DOMAIN base \ DOMAIN over[g] : res[k] = base[k]
                ELSE res = base

\* the override {weights: {area: 0.9}} resolved over the loaded file: area is
\* replaced, market is kept
C4_Witness ==
  \E c \in Calls :
    /\ Resolved(c)
    /\ HasObjectAlgo(call[c].options)
    /\ call[c].options.customAlgo.value = [weights |-> [area |-> R(9, 10)]]
    /\ defaultAlgo = FileAlgo
    /\ call[c].weights.area = R(9, 10)
    /\ call[c].weights.area # defaultAlgo.weights.area
    /\ call[c].weights.market = R(1, 4)

(***************************************************************************)
(* C5: with an override string that is not JSON, the request does not fail *)
(* because of it: its weights, cutoffs and priceBias are those of the base *)
(* configuration, it goes on to the target fetch, it can only fail in the  *)
(* lookups, and it filters with the base cutoffs.                          *)
(***************************************************************************)
C5_MalformedStringFallsBackToBase ==
  \A c \in Calls :
    LET f == call[c]
    IN  (/\ f.pc \in {"awaitTarget", "awaitCandidates", "done", "failed"}
         /\ HasMalformedAlgo(f.options)
         /\ TruthyStr(f.options, "propid")) =>
          /\ f.weights = defaultAlgo.weights
          /\ f.cutoffs = defaultAlgo.cutoffs
          /\ f.priceBias = defaultAlgo.priceBias
          /\ \E i \in 1 .. Len(f.fetches) : f.fetches[i] = "target"
          /\ f.pc = "failed" => f.error \in {TargetNotFound, FetchFailed}
          /\ f.pc = "done" =>
               \A i \in 1 .. Len(f.candidates) :
                 IsKept(f, i) <=> Eligible(f.candidates[i], f.t, defaultAlgo.cutoffs)

\* a finished request with a malformed override string over the loaded file,
\* which kept a candidate
C5_Witness ==
  \E c \in Calls :
    /\ call[c].pc = "done"
    /\ HasMalformedAlgo(call[c].options)
    /\ defaultAlgo = FileAlgo
    /\ call[c].cutoffs = FileAlgo.cutoffs
    /\ Len(call[c].result.comps) > 0

(***************************************************************************)
(* C6: for every scored candidate of a request whose priceBias.weight is   *)
(* >= 0 and whose priceBias.fullBiasAt is > 0: similarity >=               *)
(* baseSimilarity; the two are equal when the bias is disabled or the      *)
(* candidate's market value is at most the target's; and the recorded      *)
(* price-bias contribution is max(0, market / target market - 1) when the  *)
(* bias is enabled and 0 when it is disabled.                              *)
(***************************************************************************)
C6_BiasOnlyRaisesPricierScores ==
  \A c \in Calls :
    LET f == call[c]
    IN  (f.pc = "done" /\ f.priceBias.weight.n >= 0 /\ f.priceBias.fullBiasAt > 0) =>
          \A i \in 1 .. Len(f.result.comps) :
            LET s == f.result.comps[i]
                m == s.prevvalmarket
                tm == f.t.prevvalmarket
            IN  /\ s.similarity.n * s.baseSimilarity.d >= s.baseSimilarity.n * s.similarity.d
                /\ (~f.priceBias.enabled \/ m <= tm) => s.similarity = s.baseSimilarity
                /\ s.priceBias = IF f.priceBias.enabled /\ m > tm THEN R(m - tm, tm) ELSE Zero

\* a pricier candidate scored with the bias enabled and a positive weight: its
\* similarity is above its base similarity
C6_Witness ==
  \E c \in Calls :
    LET f == call[c]
    IN  /\ f.pc = "done"
        /\ f.priceBias.enabled
        /\ f.priceBias.weight.n > 0
        /\ \E i \in 1 .. Len(f.result.comps) :
             /\ f.result.comps[i].prevvalmarket > f.t.prevvalmarket
             /\ f.result.comps[i].similarity # f.result.comps[i].baseSimilarity
        /\ \E i \in 1 .. Len(f.result.comps) :
             f.result.comps[i].prevvalmarket < f.t.prevvalmarket

(***************************************************************************)
(* C7: with the bias enabled, the availability factor of a request is      *)
(* min(1, N / fullBiasAt), N being the number of candidates the provider   *)
(* returned before filtering, and it is the factor in every scored         *)
(* candidate's bias term.                                                  *)
(***************************************************************************)
C7_AvailabilityFromPreFilterCount ==
  \A c \in Calls :
    LET f == call[c]
        N == f.result.totalCandidates
        factor == IF N >= f.priceBias.fullBiasAt THEN One ELSE R(N, f.priceBias.fullBiasAt)
    IN  (f.pc = "done" /\ f.priceBias.enabled) =>
          /\ N = Len(f.candidates)
          /\ f.availabilityFactor = factor
          /\ \A i \in 1 .. Len(f.result.comps) :
               LET s == f.result.comps[i]
               IN  s.similarity =
                     RAdd(s.baseSimilarity, RMul(factor, RMul(f.priceBias.weight, s.priceBias)))

\* two candidates returned, one of them kept, fullBiasAt = 50: the factor is
\* 2/50 and the kept, pricier candidate carries a bias term
C7_Witness ==
  \E c \in Calls :
    LET f == call[c]
    IN  /\ f.pc = "done"
        /\ f.priceBias.enabled
        /\ f.priceBias.fullBiasAt = 50
        /\ Len(f.candidates) = 2
        /\ Len(f.kept) = 1
        /\ f.availabilityFactor = R(1, 25)
        /\ Len(f.result.comps) = 1
        /\ f.result.comps[1].similarity # f.result.comps[1].baseSimilarity

(***************************************************************************)
(* C8: at most one load of the default configuration is ever issued, also  *)
(* when several calls start before the first load has completed, and once  *)
(* the cache is set it is never replaced.                                  *)
(***************************************************************************)
C8_DefaultLoadedAtMostOnce ==
  [][/\ loadCount' <= 1
     /\ defaultAlgo # NullAlgo => defaultAlgo' = defaultAlgo]_vars

(***************************************************************************)
(* C9: a request without a propid fails with the missing-parameter error   *)
(* before any fetch is started and with the configuration cache as it was  *)
(* when the request was made.                                              *)
(***************************************************************************)
C9_MissingPropidFailsBeforeAnyFetch ==
  \A c \in Calls :
    (call[c].pc = "failed" /\ call[c].error = MissingParameter) =>
      /\ call[c].fetches = <<>>
      /\ defaultAlgo = call[c].cacheAtEntry

(***************************************************************************)
(* C10: over calls made one after the other with any override, the cached  *)
(* default configuration, once set, keeps the value it was first given,    *)
(* and a call without an override resolves exactly the cached              *)
(* configuration.                                                          *)
(***************************************************************************)
NoOverrideResolvesCache ==
  \A c \in Calls :
    (Resolved(c) /\ ~Has(call[c].options, "customAlgo")) =>
      /\ call[c].weights = defaultAlgo.weights
      /\ call[c].cutoffs = defaultAlgo.cutoffs
      /\ call[c].priceBias = defaultAlgo.priceBias

C10_OverrideLeavesCacheUnchanged ==
  [][/\ defaultAlgo # NullAlgo => defaultAlgo' = defaultAlgo
     /\ defaultAlgo' \in {NullAlgo, FallbackAlgo, FileAlgo}
     /\ NoOverrideResolvesCache']_vars

\* a call made with the cache already loaded from the file, whose object
\* override changed all three of its groups while the cache still holds the file
C10_Witness ==
  \E c \in Calls :
    /\ Resolved(c)
    /\ call[c].cacheAtEntry = FileAlgo
    /\ HasObjectAlgo(call[c].options)
    /\ call[c].weights # FileAlgo.weights
    /\ call[c].cutoffs # FileAlgo.cutoffs
    /\ call[c].priceBias # FileAlgo.priceBias
    /\ defaultAlgo = FileAlgo

====
